---- MODULE Spec2Model ----
(***************************************************************************)
(* Model of trmnl-spi.go: the panel lifecycle of main(), the refresh cycle *)
(* processNextImage()/displayImage(), the termination-signal listener of   *)
(* setupSignalHandling(), and the time.Duration arithmetic of the sleeps.  *)
(***************************************************************************)
EXTENDS Integers, Sequences, FiniteSets, TLC

VARIABLES
    pc,           \* position of the main goroutine
    exitBy,       \* "none" while the process runs, else how it ended
    exitCode,     \* <<status>> once os.Exit(status) was called, else <<>>
    intBits,      \* width of Go's int in this build (32 or 64)
    darkMode,     \* AppOptions.DarkMode
    display,      \* the global panel handle: "nil" or "epd"
    initOK,       \* display.Init() returned nil
    panelOps,     \* number of calls issued on the panel, per operation
    clearResult,  \* "none", or how display.Clear returned: "ok" or "err"
    defers,       \* deferred calls registered by main, in order
    tmpDir,       \* the per-process working directory exists
    cycles,       \* refresh cycles started (saturates at MaxCycles)
    lastOutcome,  \* outcome of the previous refresh cycle
    body,         \* JSON body of the metadata response of this cycle
    terminal,     \* the decoded TerminalResponse
    filename,     \* file name resolved for the download
    respStatus,   \* resp.StatusCode of the metadata response (0: none yet)
    stalled,      \* the remote service never answers the request in flight
    reqTimeout,   \* Timeout of the http.Client of the request in flight
    cycleFault,   \* what went wrong in this cycle, as the environment chose
    cycleOutcome, \* "running", "failed", "panicked" or "displayed"
    cycleSleeps,  \* durations handed to time.Sleep in this cycle
    cycleOps,     \* operations attempted in this cycle, per operation
    sleepDur,     \* duration of the time.Sleep in progress
    img,          \* the image image.Decode returned in this cycle
    frame,        \* the buffer handed to display.Display in this cycle
    lpc           \* position of the signal-listener goroutine

procVars  == <<pc, exitBy, exitCode>>
buildVars == <<intBits, darkMode>>
panelVars == <<display, initOK, panelOps, clearResult>>
mainVars  == <<defers, tmpDir>>
respVars  == <<body, terminal, filename, respStatus>>
reqVars   == <<stalled, reqTimeout>>
outVars   == <<exitBy, exitCode, cycleFault, cycleOutcome, cycleSleeps,
               sleepDur>>
convVars  == <<img, frame>>
cycleVars == <<cycles, lastOutcome, respVars, reqVars, cycleFault,
               cycleOutcome, cycleSleeps, cycleOps, sleepDur, convVars>>
vars == <<procVars, buildVars, panelVars, mainVars, cycleVars, lpc>>

----------------------------------------------------------------------------
(* Bounds of the model.                                                    *)

\* The cycle counter saturates here; the loop itself never stops.
MaxCycles == 2

\* The panel of the model: WidthBytes * 8 pixels wide, Rows pixels high. The
\* configured panel is 100 * 8 pixels wide and 480 high.
WidthBytes == 2
Rows == 2

----------------------------------------------------------------------------
(* 64-bit two's-complement integers (Go's int64 / time.Duration), kept as  *)
(* 8 little-endian limbs of 8 bits so that wrap-around is computed exactly.*)

LimbBase == 256
Int64Limbs == 8

RECURSIVE NatLimbs(_, _)
NatLimbs(n, k) ==
    IF k = 0 THEN <<>> ELSE <<n % LimbBase>> \o NatLimbs(n \div LimbBase, k - 1)

\* Zero-extension of a non-negative value to k limbs.
Extend(a, k) == [i \in 1..k |-> IF i <= Len(a) THEN a[i] ELSE 0]

\* Limb i (1-based) of the column sums of the schoolbook product.
RECURSIVE ColumnSum(_, _, _, _)
ColumnSum(a, b, col, i) ==
    IF i > col THEN 0
    ELSE a[i] * b[col - i + 1] + ColumnSum(a, b, col, i + 1)

RECURSIVE MulLimbs(_, _, _, _, _)
MulLimbs(a, b, col, carry, k) ==
    IF col > k THEN <<>>
    ELSE LET s == ColumnSum(a, b, col, 1) + carry
         IN  <<s % LimbBase>> \o MulLimbs(a, b, col + 1, s \div LimbBase, k)

\* a * b truncated to k limbs (a * b mod 2^(8k)).
MulN(a, b, k) == MulLimbs(Extend(a, k), Extend(b, k), 1, 0, k)

\* int64 multiplication as Go performs it: the low 64 bits of the product.
Mul64(a, b) == MulN(a, b, Int64Limbs)

RECURSIVE NegLimbs(_, _, _)
NegLimbs(a, i, carry) ==
    IF i > Len(a) THEN <<>>
    ELSE LET s == (LimbBase - 1 - a[i]) + carry
         IN  <<s % LimbBase>> \o NegLimbs(a, i + 1, s \div LimbBase)

\* Two's-complement negation.
Neg64(a) == NegLimbs(a, 1, 1)

\* The int64 with the value of the (small) integer n.
Int64(n) == IF n >= 0 THEN NatLimbs(n, Int64Limbs)
            ELSE Neg64(NatLimbs(0 - n, Int64Limbs))

Zero64 == Int64(0)
IsNeg64(a) == a[Int64Limbs] >= LimbBase \div 2
IsZero64(a) == a = Zero64
IsPos64(a) == ~IsNeg64(a) /\ ~IsZero64(a)

\* The value fits Go's int of the given width (decoding it does not overflow).
FitsInt(a, bits) ==
    \/ bits = 64
    \/ /\ \A i \in 5..Int64Limbs : a[i] = 0
       /\ a[4] < LimbBase \div 2
    \/ /\ \A i \in 5..Int64Limbs : a[i] = LimbBase - 1
       /\ a[4] >= LimbBase \div 2

Second == Int64(1000000000)

\* n * time.Second, for a small n written in the source.
Seconds(n) == Mul64(Int64(n), Second)

----------------------------------------------------------------------------
(* Program constants.                                                      *)

ClientTimeoutSeconds == 30
NoTimeout == 0
CooldownSeconds == 60
DefaultRefreshRate == 60
StatusOK == 200

\* Refresh rates the remote service may send, as JSON numbers within int64.
Rate2147483648 == <<0, 0, 0, 128, 0, 0, 0, 0>>
Rate9223372036 == <<4, 125, 193, 37, 2, 0, 0, 0>>
Rate9223372037 == <<5, 125, 193, 37, 2, 0, 0, 0>>
Rates == {Int64(0 - 5), Int64(0), Int64(30), Int64(120),
          Rate2147483648, Rate9223372036, Rate9223372037}

Absent == <<"absent">>
Present(v) == <<"present", v>>
IsPresent(f) == f[1] = "present"

\* Bodies of a metadata response that parse as a JSON object.
Bodies == [filename : {Absent, Present(""), Present("plot.png")},
           refresh_rate : {Absent} \cup {Present(r) : r \in Rates}]

HTTPStatuses == {StatusOK, 500}

PanelOpNames == {"Init", "Clear", "Display", "Sleep"}
CycleOpNames == {"metadata", "download", "decode", "write_frame"}

NoFault == [stage |-> "none", kind |-> "none"]
NoTerminal == [Filename |-> "", RefreshRate |-> Zero64]
NoBody == [filename |-> Absent, refresh_rate |-> Absent]

Alive == exitBy = "none"

Bump(f, op) == [f EXCEPT ![op] = IF @ < MaxCycles THEN @ + 1 ELSE @]

----------------------------------------------------------------------------
(* displayImage: from the decoded image to the packed frame.               *)

\* spiConfig.Width and spiConfig.Height as configured.
PanelWidth == 800
PanelHeight == 480

\* spiConfig.Width and spiConfig.Height of the model's panel.
Width == 8 * WidthBytes
Height == Rows

Coords == (0 .. Width - 1) \X (0 .. Height - 1)

\* A pixel is an NRGBA colour with 8-bit channels; an image is its size and
\* its pixels by <<x, y>>.
Opaque(v) == [R |-> v, G |-> v, B |-> v, A |-> 255]
NoImage == [w |-> 0, h |-> 0, px |-> <<>>]

\* imaging.Resize(img, Width, Height, imaging.NearestNeighbor): the pixel at
\* (x, y) is the source pixel under the centre of (x, y).
Resize(src) ==
    [xy \in Coords |->
        src.px[<< ((2 * xy[1] + 1) * src.w) \div (2 * Width),
                  ((2 * xy[2] + 1) * src.h) \div (2 * Height) >>]]

\* color.NRGBA.RGBA(): the alpha-premultiplied 16-bit channels.
Channel16(c, a) == (c * 257 * a) \div 255
RGBA(p) == [r |-> Channel16(p.R, p.A), g |-> Channel16(p.G, p.A),
            b |-> Channel16(p.B, p.A)]

\* (r*299 + g*587 + b*114) / 1000 on uint32.
Luma(r, g, b) == (r * 299 + g * 587 + b * 114) \div 1000

\* Variant of Gray8: the shift is missing, only the truncation is left.
Gray8NoShift(r, g, b) == Luma(r, g, b) % 256

\* uint8(luma >> 8): the shift, then the truncation to 8 bits.
Gray8(r, g, b) == (Luma(r, g, b) \div 256) % 256

Threshold == 128

\* Variant of MonoPixel: the comparisons are strict the other way round
\* (gray > threshold, gray <= threshold).
MonoPixelStrict(gray, dark) ==
    IF dark
    THEN IF gray <= Threshold THEN 255 ELSE 0
    ELSE IF gray > Threshold THEN 255 ELSE 0

\* Variant of MonoPixel: dark mode compares with <= instead of <.
MonoPixelDarkLeq(gray, dark) ==
    IF dark
    THEN IF gray <= Threshold THEN 255 ELSE 0
    ELSE IF gray >= Threshold THEN 255 ELSE 0

\* The value written to monoImg for a gray level: 255 is white, 0 is black.
MonoPixel(gray, dark) ==
    IF dark
    THEN IF gray < Threshold THEN 255 ELSE 0
    ELSE IF gray >= Threshold THEN 255 ELSE 0

\* monoImg after the thresholding loops.
Monochrome(resized, dark) ==
    [xy \in Coords |->
        LET c == RGBA(resized[xy])
        IN  MonoPixel(Gray8(c.r, c.g, c.b), dark)]

\* Variant of FrameLen: the size the comment above the allocation gives
\* for 800x480 (38400 bytes), a tenth of the pixels.
FrameLenAsCommented(w, h) == (w * h) \div 10

\* len(buffer) = Width*Height/8.
FrameLen(w, h) == (w * h) \div 8

BytePos(x, y) == (y * Width + x) \div 8

\* Variant of BitPos: least significant bit first.
BitPosLSB(x) == x % 8

BitPos(x) == 7 - (x % 8)

\* Bit `bit` of buffer[pos] after the packing loops: set by any black pixel
\* that maps to it (buffer[bytePos] |= 1 << bitPos).
BitSet(mono, pos, bit) ==
    \E xy \in Coords :
        /\ BytePos(xy[1], xy[2]) = pos
        /\ BitPos(xy[1]) = bit
        /\ mono[xy] = 0

RECURSIVE ByteValue(_, _, _)
ByteValue(mono, pos, bit) ==
    IF bit > 7 THEN 0
    ELSE (IF BitSet(mono, pos, bit) THEN 2 ^ bit ELSE 0)
         + ByteValue(mono, pos, bit + 1)

\* buffer after the packing loops, as a sequence (buffer[0] is element 1).
Pack(mono) ==
    [k \in 1 .. FrameLen(Width, Height) |-> ByteValue(mono, k - 1, 0)]

\* The buffer displayImage builds from a decoded image.
ConvertFrame(src, dark) == Pack(Monochrome(Resize(src), dark))

\* Images image.Decode may return.
Uniform(p) == [w |-> 1, h |-> 1, px |-> [xy \in {<<0, 0>>} |-> p]]
Spot(at, p, q) ==
    [w |-> Width, h |-> Height,
     px |-> [xy \in Coords |-> IF xy = at THEN p ELSE q]]
Checker ==
    [w |-> Width, h |-> Height,
     px |-> [xy \in Coords |->
                IF (xy[1] + xy[2]) % 2 = 0 THEN Opaque(0) ELSE Opaque(255)]]
Stripes ==
    [w |-> 3, h |-> 1,
     px |-> [xy \in (0 .. 2) \X {0} |->
                IF xy[1] = 1 THEN Opaque(127) ELSE Opaque(128)]]

Grays == {0, 1, 127, 128, 129, 255}
Colours ==
    {[R |-> 255, G |-> 0, B |-> 0, A |-> 255],
     [R |-> 0, G |-> 255, B |-> 0, A |-> 255],
     [R |-> 0, G |-> 0, B |-> 255, A |-> 255],
     [R |-> 255, G |-> 255, B |-> 255, A |-> 128],
     [R |-> 200, G |-> 100, B |-> 50, A |-> 255]}
SpotPixels == {Opaque(0), Opaque(128), Opaque(255)}

Images ==
    {Uniform(Opaque(v)) : v \in Grays} \cup {Uniform(p) : p \in Colours}
    \cup {Spot(at, pq[1], pq[2]) :
            at \in Coords, pq \in {z \in SpotPixels \X SpotPixels : z[1] # z[2]}}
    \cup {Checker, Stripes}

\* The images the refresh loop is explored with.
LoopImages == {Uniform(Opaque(0)), Uniform(Opaque(255))}

----------------------------------------------------------------------------
(* Process start.                                                          *)

InitCycle ==
    /\ body = NoBody
    /\ terminal = NoTerminal
    /\ filename = ""
    /\ respStatus = 0
    /\ stalled = FALSE
    /\ reqTimeout = NoTimeout
    /\ cycleFault = NoFault
    /\ cycleOutcome = "running"
    /\ cycleSleeps = <<>>
    /\ cycleOps = [o \in CycleOpNames |-> 0]
    /\ sleepDur = Zero64
    /\ img = NoImage
    /\ frame = <<>>

InitMain ==
    /\ pc = "parseCommandLineArgs"
    /\ exitBy = "none"
    /\ exitCode = <<>>
    /\ intBits \in {32, 64}
    /\ darkMode = FALSE
    /\ display = "nil"
    /\ initOK = FALSE
    /\ panelOps = [o \in PanelOpNames |-> 0]
    /\ clearResult = "none"
    /\ defers = <<>>
    /\ tmpDir = FALSE
    /\ cycles = 0
    /\ lastOutcome = "none"
    /\ InitCycle

\* The program as built: main never calls setupSignalHandling, so no
\* listener goroutine exists and the signals keep their default disposition.
Init == InitMain /\ lpc = "off"

\* os.Exit(code): the process ends at once; deferred calls do not run.
osExit(code) ==
    /\ exitBy' = "os.Exit"
    /\ exitCode' = <<code>>
    /\ UNCHANGED <<pc, defers, tmpDir>>

\* parseCommandLineArgs: -d sets DarkMode; -v prints the version and exits 0.
parseCommandLineArgs ==
    /\ Alive /\ pc = "parseCommandLineArgs"
    /\ \E d \in BOOLEAN, showVersion \in BOOLEAN :
          /\ darkMode' = d
          /\ IF showVersion
             THEN osExit(0)
             ELSE /\ pc' = "initDisplay"
                  /\ UNCHANGED <<exitBy, exitCode, mainVars>>
    /\ UNCHANGED <<intBits, panelVars, cycleVars, lpc>>

\* initDisplay: the handle is assigned, then display.Init() is called. When
\* it returns nil main registers the deferred cleanupDisplay.
initDisplay ==
    /\ Alive /\ pc = "initDisplay"
    /\ display' = "epd"
    /\ panelOps' = Bump(panelOps, "Init")
    /\ \E ok \in BOOLEAN :
          /\ initOK' = ok
          /\ IF ok
             THEN /\ defers' = Append(defers, "cleanupDisplay")
                  /\ pc' = "UserHomeDir"
             ELSE /\ pc' = "InitFailed"
                  /\ UNCHANGED defers
    /\ UNCHANGED <<exitBy, exitCode, tmpDir, clearResult, buildVars,
                   cycleVars, lpc>>

\* Variant of AfterInitError: the error is reported and main goes on.
AfterInitErrorContinue ==
    /\ pc' = "UserHomeDir"
    /\ UNCHANGED <<exitBy, exitCode, defers, tmpDir>>

\* main after initDisplay returned an error: report it and os.Exit(1).
AfterInitError == osExit(1)

InitFailedExit ==
    /\ Alive /\ pc = "InitFailed"
    /\ AfterInitError
    /\ UNCHANGED <<buildVars, panelVars, cycleVars, lpc>>

\* A fatal error of main after the panel was initialized: os.Exit(1).
FatalExit == osExit(1) /\ UNCHANGED panelVars

UserHomeDir ==
    /\ Alive /\ pc = "UserHomeDir"
    /\ \E ok \in BOOLEAN :
          IF ok
          THEN /\ pc' = "MkdirAll"
               /\ UNCHANGED <<exitBy, exitCode, panelVars, mainVars>>
          ELSE FatalExit
    /\ UNCHANGED <<buildVars, cycleVars, lpc>>

MkdirAll ==
    /\ Alive /\ pc = "MkdirAll"
    /\ \E ok \in BOOLEAN :
          IF ok
          THEN /\ pc' = "loadConfig"
               /\ UNCHANGED <<exitBy, exitCode, panelVars, mainVars>>
          ELSE FatalExit
    /\ UNCHANGED <<buildVars, cycleVars, lpc>>

\* loadConfig, the TRMNL_API_KEY fallback, the prompt and saveConfig: none of
\* them can end the process.
loadConfig ==
    /\ Alive /\ pc = "loadConfig"
    /\ pc' = "MkdirTemp"
    /\ UNCHANGED <<exitBy, exitCode, buildVars, panelVars, mainVars,
                   cycleVars, lpc>>

\* os.MkdirTemp; on success main registers the deferred os.RemoveAll(tmpDir).
MkdirTemp ==
    /\ Alive /\ pc = "MkdirTemp"
    /\ \E ok \in BOOLEAN :
          IF ok
          THEN /\ tmpDir' = TRUE
               /\ defers' = Append(defers, "RemoveAll")
               /\ pc' = "clearDisplay"
               /\ UNCHANGED <<exitBy, exitCode, panelVars>>
          ELSE FatalExit
    /\ UNCHANGED <<buildVars, cycleVars, lpc>>

\* clearDisplay calls display.Clear(0xFF); the call is then in progress.
clearDisplay ==
    /\ Alive /\ pc = "clearDisplay"
    /\ panelOps' = Bump(panelOps, "Clear")
    /\ pc' = "Clear"
    /\ UNCHANGED <<exitBy, exitCode, display, initOK, clearResult, buildVars,
                   mainVars, cycleVars, lpc>>

\* Variant of AfterClear: a failed clear is treated as fatal.
AfterClearFatal(err) ==
    IF err THEN osExit(1)
    ELSE pc' = "NewRequest" /\ UNCHANGED <<exitBy, exitCode, defers, tmpDir>>

\* After display.Clear returned (err: it failed): the error is printed only,
\* clearDisplay returns and main enters the loop.
AfterClear(err) ==
    /\ pc' = "NewRequest"
    /\ UNCHANGED <<exitBy, exitCode, defers, tmpDir>>

ClearReturn ==
    /\ Alive /\ pc = "Clear"
    /\ \E err \in BOOLEAN :
          /\ clearResult' = IF err THEN "err" ELSE "ok"
          /\ AfterClear(err)
    /\ UNCHANGED <<display, initOK, panelOps, buildVars, cycleVars, lpc>>

----------------------------------------------------------------------------
(* processNextImage: one refresh cycle.                                    *)

\* How a step of the cycle can end, as its environment decides. Panics are
\* modelled inside the cycle, where the deferred recover() handles them.
Results == {"ok", "err", "panic"}

\* time.Sleep(d) begins; outcome says on which path of the cycle.
Sleep(d, outcome) ==
    /\ pc' = "Sleep"
    /\ sleepDur' = d
    /\ cycleSleeps' = Append(cycleSleeps, d)
    /\ cycleOutcome' = outcome
    /\ UNCHANGED <<exitBy, exitCode>>

\* Variant of ErrorReturn: the error branch returns without the cooldown.
ErrorReturnNoCooldown ==
    /\ pc' = "NewRequest"
    /\ cycleOutcome' = "failed"
    /\ UNCHANGED <<sleepDur, cycleSleeps, exitBy, exitCode>>

\* An error branch: print, time.Sleep(60 * time.Second), return.
ErrorReturn == Sleep(Seconds(CooldownSeconds), "failed")

\* Variant of Recover: no recover(), the panic ends the process (status 2).
RecoverAbsent ==
    /\ exitBy' = "panic"
    /\ exitCode' = <<2>>
    /\ UNCHANGED <<pc, sleepDur, cycleSleeps, cycleOutcome>>

\* The deferred function of processNextImage with a panic to recover:
\* print, time.Sleep(60 * time.Second); the function then returns normally.
Recover == Sleep(Seconds(CooldownSeconds), "panicked")

\* A step at `stage` ended with an error or a panic.
Faulted(stage, kind) ==
    /\ cycleFault' = [stage |-> stage, kind |-> kind]
    /\ IF kind = "panic" THEN Recover ELSE ErrorReturn

\* Everything a cycle step leaves alone besides the cycle's own variables.
CycleFrame ==
    UNCHANGED <<buildVars, display, initOK, clearResult, mainVars,
                lastOutcome, lpc>>

\* http.NewRequest, the two headers, the client with its 30 s Timeout, and
\* client.Do: the metadata request is then in flight.
NewRequest ==
    /\ Alive /\ pc = "NewRequest"
    /\ cycles' = IF cycles < MaxCycles THEN cycles + 1 ELSE cycles
    /\ \E r \in Results :
          IF r = "ok"
          THEN /\ pc' = "Do"
               /\ cycleOps' = Bump(cycleOps, "metadata")
               /\ stalled' \in BOOLEAN
               /\ reqTimeout' = ClientTimeoutSeconds
               /\ UNCHANGED outVars
          ELSE /\ Faulted("NewRequest", r)
               /\ UNCHANGED <<cycleOps, reqVars>>
    /\ UNCHANGED <<respVars, panelOps, convVars>>
    /\ CycleFrame

\* Variant of StatusCheck: the status of the response is not looked at.
StatusCheckIgnored(status) == pc' = "Decode" /\ UNCHANGED outVars

\* The status check on the metadata response.
StatusCheck(status) ==
    IF status # StatusOK
    THEN Faulted("StatusCode", "err")
    ELSE pc' = "Decode" /\ UNCHANGED outVars

\* client.Do returns: an error, or a response whose status is checked.
Do ==
    /\ Alive /\ pc = "Do" /\ ~stalled
    /\ \E r \in Results, status \in HTTPStatuses :
          IF r = "ok"
          THEN /\ respStatus' = status
               /\ StatusCheck(status)
          ELSE /\ Faulted("Do", r)
               /\ UNCHANGED respStatus
    /\ UNCHANGED <<cycles, body, terminal, filename, reqVars, cycleOps,
                   panelOps, convVars>>
    /\ CycleFrame

\* The Timeout of the client of the request in flight expires: the request
\* returns an error. A client whose Timeout is zero never times out.
ClientTimeout ==
    /\ Alive /\ pc \in {"Do", "Get"} /\ reqTimeout > NoTimeout
    /\ Faulted(pc, "err")
    /\ UNCHANGED <<cycles, respVars, reqVars, cycleOps, panelOps, convVars>>
    /\ CycleFrame

\* encoding/json into TerminalResponse: an absent field keeps its zero value.
DecodeBody(b) ==
    [Filename    |-> IF IsPresent(b.filename) THEN b.filename[2] ELSE "",
     RefreshRate |-> IF IsPresent(b.refresh_rate) THEN b.refresh_rate[2]
                     ELSE Zero64]

\* The file name of the download: the server's, or the fallback.
ResolveFilename(t) == IF t.Filename = "" THEN "display.jpg" ELSE t.Filename

\* decoder.Decode, the file name, and http.Get(terminal.ImageURL): the image
\* request is then in flight on http.DefaultClient, whose Timeout is zero.
\* A refresh_rate that overflows int is a decode error.
Decode ==
    /\ Alive /\ pc = "Decode"
    /\ \E b \in Bodies, r \in Results :
          /\ body' = b
          /\ IF r = "ok" /\ FitsInt(DecodeBody(b).RefreshRate, intBits)
             THEN /\ terminal' = DecodeBody(b)
                  /\ filename' = ResolveFilename(DecodeBody(b))
                  /\ pc' = "Get"
                  /\ cycleOps' = Bump(cycleOps, "download")
                  /\ stalled' \in BOOLEAN
                  /\ reqTimeout' = NoTimeout
                  /\ UNCHANGED outVars
             ELSE /\ Faulted("Decode", IF r = "panic" THEN "panic" ELSE "err")
                  /\ UNCHANGED <<terminal, filename, cycleOps, reqVars>>
    /\ UNCHANGED <<cycles, respStatus, panelOps, convVars>>
    /\ CycleFrame

\* A step that either goes on to `next` or ends the cycle with a fault.
Step(stage, next) ==
    /\ Alive /\ pc = stage
    /\ \E r \in Results :
          IF r = "ok"
          THEN pc' = next /\ UNCHANGED outVars
          ELSE Faulted(stage, r)
    /\ UNCHANGED <<cycles, respVars, reqVars, panelOps>>
    /\ CycleFrame

\* http.Get returns.
Get == ~stalled /\ Step("Get", "Create") /\ UNCHANGED <<cycleOps, convVars>>

\* os.Create(filePath).
Create == Step("Create", "Copy") /\ UNCHANGED <<cycleOps, convVars>>

\* io.Copy(out, imgResp.Body) and out.Close(); displayImage is called next.
Copy == Step("Copy", "Open") /\ UNCHANGED <<cycleOps, convVars>>

\* displayImage: os.Open(imagePath).
Open == Step("Open", "ImageDecode") /\ UNCHANGED <<cycleOps, convVars>>

\* displayImage: image.Decode(file).
ImageDecode ==
    /\ Step("ImageDecode", "Convert")
    /\ cycleOps' = Bump(cycleOps, "decode")
    /\ img' \in (IF pc' = "Convert" THEN LoopImages ELSE {img})
    /\ UNCHANGED frame

\* displayImage: resize, threshold and pack the frame (no error return),
\* then call display.Display(buffer); the call is then in progress.
Convert ==
    /\ Alive /\ pc = "Convert"
    /\ \E r \in {"ok", "panic"} :
          IF r = "ok"
          THEN /\ frame' = ConvertFrame(img, darkMode)
               /\ pc' = "Display"
               /\ cycleOps' = Bump(cycleOps, "write_frame")
               /\ panelOps' = Bump(panelOps, "Display")
               /\ UNCHANGED outVars
          ELSE /\ Faulted("Convert", r)
               /\ UNCHANGED <<cycleOps, panelOps, frame>>
    /\ UNCHANGED <<cycles, respVars, reqVars, img>>
    /\ CycleFrame

\* refreshRate <= 0 becomes 60.
NormalizeRate(rate) ==
    IF IsPos64(rate) THEN rate ELSE Int64(DefaultRefreshRate)

\* time.Duration(refreshRate) * time.Second, an int64 multiplication.
RefreshDuration(rate) == Mul64(NormalizeRate(rate), Second)

\* After displayImage returned nil: sleep for the refresh interval.
Displayed == Sleep(RefreshDuration(terminal.RefreshRate), "displayed")

\* Variant of DisplayReturn: the error of display.Display is dropped and the
\* cycle goes on as if the frame had been shown.
DisplayReturnIgnoresError ==
    /\ Alive /\ pc = "Display"
    /\ \E r \in Results :
          IF r = "ok"
          THEN Displayed /\ UNCHANGED cycleFault
          ELSE IF r = "err"
          THEN Displayed /\ cycleFault' = [stage |-> "Display", kind |-> r]
          ELSE Faulted("Display", r)
    /\ UNCHANGED <<cycles, respVars, reqVars, cycleOps, panelOps, convVars>>
    /\ CycleFrame

\* display.Display returns, displayImage returns its result.
DisplayReturn ==
    /\ Alive /\ pc = "Display"
    /\ \E r \in Results :
          IF r = "ok"
          THEN Displayed /\ UNCHANGED cycleFault
          ELSE Faulted("Display", r)
    /\ UNCHANGED <<cycles, respVars, reqVars, cycleOps, panelOps, convVars>>
    /\ CycleFrame

\* time.Sleep returns, processNextImage returns, and the for loop of main
\* calls it again.
WakeUp ==
    /\ Alive /\ pc = "Sleep"
    /\ pc' = "NewRequest"
    /\ lastOutcome' = cycleOutcome
    /\ body' = NoBody
    /\ terminal' = NoTerminal
    /\ filename' = ""
    /\ respStatus' = 0
    /\ stalled' = FALSE
    /\ reqTimeout' = NoTimeout
    /\ cycleFault' = NoFault
    /\ cycleOutcome' = "running"
    /\ cycleSleeps' = <<>>
    /\ cycleOps' = [o \in CycleOpNames |-> 0]
    /\ sleepDur' = Zero64
    /\ img' = NoImage
    /\ frame' = <<>>
    /\ UNCHANGED <<exitBy, exitCode, buildVars, panelVars, mainVars, cycles,
                   lpc>>

\* The main goroutine.
Main ==
    \/ parseCommandLineArgs \/ initDisplay \/ InitFailedExit
    \/ UserHomeDir \/ MkdirAll
    \/ loadConfig \/ MkdirTemp \/ clearDisplay \/ ClearReturn
    \/ NewRequest \/ Do \/ ClientTimeout \/ Decode \/ Get \/ Create \/ Copy
    \/ Open \/ ImageDecode \/ Convert \/ DisplayReturn \/ WakeUp

----------------------------------------------------------------------------
(* Termination signals.                                                    *)

\* SIGINT, SIGTERM or SIGHUP with no handler installed: the Go runtime ends
\* the process; no deferred call and no cleanup runs.
SignalDefault ==
    /\ Alive /\ lpc = "off"
    /\ exitBy' = "signal"
    /\ UNCHANGED <<pc, exitCode, buildVars, panelVars, mainVars, cycleVars,
                   lpc>>

Next == Main \/ SignalDefault

Spec == Init /\ [][Next]_vars

\* The main goroutine keeps running while it can take a step.
FairSpec == Spec /\ WF_vars(Main)

----------------------------------------------------------------------------
(* setupSignalHandling, as it behaves once called: a goroutine waits for   *)
(* the first SIGINT, SIGTERM or SIGHUP, then runs cleanupDisplay and       *)
(* os.Exit(0). It takes no lock; it reads the global handle directly.      *)

\* setupSignalHandling called at the start of main: the listener waits.
InitListener == InitMain /\ lpc = "waiting"

\* A signal is delivered to the channel and the listener receives it.
SignalNotify ==
    /\ Alive /\ lpc = "waiting"
    /\ lpc' = "cleanupDisplay"
    /\ UNCHANGED <<procVars, buildVars, panelVars, mainVars, cycleVars>>

\* cleanupDisplay: if display != nil, call display.Sleep(); the call is
\* then in progress.
cleanupDisplay ==
    /\ Alive /\ lpc = "cleanupDisplay"
    /\ IF display # "nil"
       THEN /\ panelOps' = Bump(panelOps, "Sleep")
            /\ lpc' = "display.Sleep"
       ELSE /\ lpc' = "os.Exit"
            /\ UNCHANGED panelOps
    /\ UNCHANGED <<procVars, buildVars, display, initOK, clearResult,
                   mainVars, cycleVars>>

\* display.Sleep returns and cleanupDisplay returns.
SleepReturn ==
    /\ Alive /\ lpc = "display.Sleep"
    /\ lpc' = "os.Exit"
    /\ UNCHANGED <<procVars, buildVars, panelVars, mainVars, cycleVars>>

\* The listener's os.Exit(0).
ListenerExit ==
    /\ Alive /\ lpc = "os.Exit"
    /\ osExit(0)
    /\ UNCHANGED <<buildVars, panelVars, cycleVars, lpc>>

Listener == SignalNotify \/ cleanupDisplay \/ SleepReturn \/ ListenerExit

NextListener == Main \/ Listener

SpecListener == InitListener /\ [][NextListener]_vars

----------------------------------------------------------------------------
(* Properties.                                                             *)

\* 60 s as a time.Duration: 60 000 000 000 ns, written out limb by limb.
SixtySeconds == <<0, 88, 71, 248, 13, 0, 0, 0>>

PanelAsleep == panelOps["Sleep"] > 0
CycleStarted == cycleOps["metadata"] = 0 /\ cycleSleeps = <<>>

\* C1: once the panel is initialized, a process ended by SIGINT, SIGTERM or
\* SIGHUP has had the panel's sleep invoked before it ended.
C1_SignalExitSleepsPanel ==
    (exitBy = "signal" /\ initOK) => PanelAsleep

\* C2: once the panel is initialized, a fatal exit (status 1) of main has put
\* the panel to sleep before the process ended.
C2_FatalExitSleepsPanel ==
    (exitBy = "os.Exit" /\ exitCode = <<1>> /\ initOK) => PanelAsleep

\* C3: a step of a refresh cycle that fails makes the cycle sleep exactly
\* once, for 60 s, without ending the process; the cycle then ends and the
\* next step of main is the metadata request of a fresh cycle.
C3_FailedCycleCoolsDownOnce ==
    [][ /\ cycleFault'.kind = "err" =>
             /\ pc' = "Sleep"
             /\ cycleSleeps' = <<SixtySeconds>>
             /\ sleepDur' = SixtySeconds
             /\ exitBy' \in {"none", "signal"}
        /\ (cycleFault.kind = "err" /\ pc' # pc) =>
             /\ pc' = "NewRequest"
             /\ CycleStarted'
             /\ lastOutcome' = "failed" ]_vars

\* C3 witness: a cycle failed at the panel write, cooled down, and the next
\* cycle has its metadata request in flight.
C3_Witness ==
    /\ lastOutcome = "failed" /\ pc = "Do" /\ cycles = 2
    /\ panelOps["Display"] = 1

\* C4: a panic raised in a step of a refresh cycle is recovered at the cycle
\* boundary: the cycle sleeps once for 60 s, the process goes on, and the
\* next step of main is the metadata request of a fresh cycle.
C4_PanicRecoveredWithCooldown ==
    [][ /\ cycleFault'.kind = "panic" =>
             /\ pc' = "Sleep"
             /\ cycleSleeps' = <<SixtySeconds>>
             /\ sleepDur' = SixtySeconds
             /\ exitBy' \in {"none", "signal"}
        /\ (cycleFault.kind = "panic" /\ pc' # pc) =>
             /\ pc' = "NewRequest"
             /\ CycleStarted'
             /\ lastOutcome' = "panicked" ]_vars

\* C4 witness: a panic during the conversion was recovered and the next cycle
\* has its metadata request in flight.
C4_Witness ==
    /\ lastOutcome = "panicked" /\ pc = "Do" /\ cycles = 2
    /\ exitBy = "none"

\* C5: a refresh cycle with a network request in flight eventually reaches a
\* sleep (or the process has ended), however the remote service behaves.
C5_RequestInFlightLeadsToSleep ==
    (pc \in {"Do", "Get"}) ~> (pc = "Sleep" \/ exitBy # "none")

PreConversionStages ==
    {"NewRequest", "Do", "StatusCode", "Decode", "Get", "Create", "Copy",
     "Open", "ImageDecode"}

\* C7: in a cycle whose metadata response has a status other than 200, or
\* that fails at any step before the conversion, write_frame is not invoked,
\* and the cycle is in its single 60 s sleep.
C7_NoWriteInCycleFailedEarly ==
    (\/ respStatus \notin {0, StatusOK}
     \/ cycleFault.kind = "err" /\ cycleFault.stage \in PreConversionStages)
    => /\ cycleOps["write_frame"] = 0
       /\ pc = "Sleep"
       /\ cycleSleeps = <<SixtySeconds>>

\* C7 witness: the metadata request was answered with status 500.
C7_Witness ==
    /\ respStatus = 500 /\ pc = "Sleep" /\ cycleOps["metadata"] = 1
    /\ cycleOps["write_frame"] = 0

\* The interval the metadata asks for: refresh_rate when present and positive,
\* else 60.
InstructedRate ==
    IF IsPresent(body.refresh_rate) /\ IsPos64(body.refresh_rate[2])
    THEN body.refresh_rate[2]
    ELSE Int64(60)

\* C8: after a successful display the sleep lasts exactly the instructed
\* number of seconds (60 for a zero, negative or absent refresh_rate), and is
\* strictly positive.
C8_SleepIsInstructedInterval ==
    cycleOutcome = "displayed" =>
       /\ IsPos64(sleepDur)
       /\ Extend(sleepDur, 2 * Int64Limbs)
            = MulN(InstructedRate, Second, 2 * Int64Limbs)

InitFailed == panelOps["Init"] > 0 /\ ~initOK

\* What holds in every state after a failed panel initialization.
InitFailureContained ==
    InitFailed =>
       /\ pc = "InitFailed"
       /\ exitBy = "os.Exit" => exitCode = <<1>>
       /\ panelOps["Clear"] = 0 /\ panelOps["Display"] = 0
       /\ panelOps["Sleep"] = 0
       /\ cycles = 0 /\ cycleOps["metadata"] = 0

\* C9: after a failed panel initialization no clear, no write_frame, no
\* metadata request and no refresh cycle is ever issued, an os.Exit has
\* status 1, and the process does end.
C9_InitFailureIsFatal ==
    /\ []InitFailureContained
    /\ InitFailed ~> (exitBy # "none")

\* C9 witness: initialization failed and the process has exited with 1.
C9_Witness == InitFailed /\ exitBy = "os.Exit" /\ exitCode = <<1>>

\* C10: when display.Clear returns, with or without an error, main goes on to
\* the refresh loop with the same handle and the process keeps running; a
\* failed clear is never followed by a fatal exit.
C10_ClearFailureNonFatal ==
    [][ /\ (pc = "Clear" /\ pc' # pc) =>
             /\ pc' = "NewRequest"
             /\ display' = display
             /\ exitBy' = "none"
        /\ clearResult' = "err" =>
             /\ exitBy' # "os.Exit"
             /\ display' = "epd" ]_vars

\* C10 witness: the clear failed and the first cycle's request is in flight.
C10_Witness == clearResult = "err" /\ pc = "Do" /\ exitBy = "none"

----------------------------------------------------------------------------
(* displayImage's conversion on its own: main is about to convert the      *)
(* image image.Decode returned in the first cycle, for every image of      *)
(* Images and both settings of -d.                                          *)

InitConvert ==
    /\ pc = "Convert"
    /\ exitBy = "none"
    /\ exitCode = <<>>
    /\ intBits = 64
    /\ darkMode \in BOOLEAN
    /\ display = "epd"
    /\ initOK = TRUE
    /\ panelOps = [o \in PanelOpNames |->
                      IF o \in {"Init", "Clear"} THEN 1 ELSE 0]
    /\ clearResult = "ok"
    /\ defers = <<"cleanupDisplay", "RemoveAll">>
    /\ tmpDir = TRUE
    /\ cycles = 1
    /\ lastOutcome = "none"
    /\ body = [filename |-> Present("plot.png"),
               refresh_rate |-> Present(Int64(30))]
    /\ terminal = DecodeBody(body)
    /\ filename = "plot.png"
    /\ respStatus = StatusOK
    /\ stalled = FALSE
    /\ reqTimeout = NoTimeout
    /\ cycleFault = NoFault
    /\ cycleOutcome = "running"
    /\ cycleSleeps = <<>>
    /\ cycleOps = [o \in CycleOpNames |->
                      IF o = "write_frame" THEN 0 ELSE 1]
    /\ sleepDur = Zero64
    /\ img \in Images
    /\ frame = <<>>
    /\ lpc = "off"

ConvSpec == InitConvert /\ [][Convert]_vars

\* The buffer of this cycle has been handed to display.Display.
Packed == cycleOps["write_frame"] > 0

\* monoImg of this cycle, and whether its pixel at xy is ink (black).
Mono == Monochrome(Resize(img), darkMode)
Ink(xy) == Mono[xy] = 0

\* Bit `bit` of a byte.
BitOf(byte, bit) == (byte \div (2 ^ bit)) % 2

C12_ExitRemovesWorkdir ==
    (exitBy # "none" /\ Len(defers) = 2) => ~tmpDir

\* C17: a cycle sleeps for the instructed interval only after its write_frame
\* was invoked and returned without error; when write_frame returns an error
\* the cycle sleeps 60 s, whatever refresh_rate the metadata carries.
C17_IntervalSleepOnlyAfterWrite ==
    /\ cycleOutcome = "displayed" =>
          /\ cycleOps["write_frame"] = 1
          /\ cycleFault = NoFault
          /\ pc = "Sleep"
    /\ (cycleFault.stage = "Display" /\ cycleFault.kind = "err") =>
          /\ cycleOutcome = "failed"
          /\ cycleSleeps = <<SixtySeconds>>
          /\ sleepDur = SixtySeconds

\* C17 witness: write_frame failed in a cycle whose metadata asked for 120 s,
\* and the cycle is in its 60 s sleep.
C17_Witness ==
    /\ cycleFault = [stage |-> "Display", kind |-> "err"]
    /\ body.refresh_rate = Present(Int64(120))
    /\ pc = "Sleep" /\ sleepDur = SixtySeconds

\* C18: within one refresh cycle the metadata request, the image download,
\* the decode and the panel write are each attempted at most once.
C18_AtMostOnceInCycle ==
    \A o \in CycleOpNames : cycleOps[o] <= 1

\* C18 witness: after a failed cycle, a later cycle has attempted each of
\* the four operations once.
C18_Witness ==
    /\ lastOutcome = "failed" /\ cycles = 2
    /\ \A o \in CycleOpNames : cycleOps[o] = 1

\* a >= b for non-negative 64-bit values, from the top limb down.
RECURSIVE GeqLimbs(_, _, _)
GeqLimbs(a, b, i) ==
    IF i = 0 THEN TRUE
    ELSE IF a[i] # b[i] THEN a[i] > b[i]
    ELSE GeqLimbs(a, b, i - 1)

AtLeastOneSecond(d) ==
    ~IsNeg64(d) /\ GeqLimbs(d, <<0, 202, 154, 59, 0, 0, 0, 0>>, Int64Limbs)

\* C19: a refresh cycle sleeps exactly once before it returns, for at least
\* one second, so two metadata requests are never issued back to back.
C19_OneSleepOfAtLeastOneSecond ==
    /\ pc = "Sleep" => Len(cycleSleeps) = 1 /\ AtLeastOneSecond(sleepDur)
    /\ (pc \in {"NewRequest", "Do"} /\ cycles > 1) => lastOutcome # "none"

\* C13: for every pixel (x, y) of the panel, the bit of the packed frame at
\* byte (y*width + x) div 8, position 7 - (x mod 8), is 1 exactly when the
\* monochrome pixel is ink: most significant bit first, left to right.
C13_BitLayout ==
    Packed =>
       \A xy \in Coords :
          LET pos == (xy[2] * Width + xy[1]) \div 8
              bit == 7 - (xy[1] % 8)
          IN  /\ pos + 1 \in DOMAIN frame
              /\ BitOf(frame[pos + 1], bit) = 1 <=> Ink(xy)

\* C13 witness: the checkerboard, whose rows pack to 0xAA.. and 0x55...
C13_Witness ==
    /\ Packed /\ ~darkMode /\ img = Checker
    /\ frame[1] = 170 /\ frame[WidthBytes + 1] = 85

\* C14: a uniform image of gray level g packs to a uniform frame: without
\* dark mode 0xFF bytes for g < 128 and 0x00 bytes for g >= 128, with dark
\* mode the other way round.
C14_UniformThreshold ==
    Packed =>
       \A g \in Grays :
          img = Uniform(Opaque(g)) =>
             frame = [k \in 1 .. (Width * Height) \div 8 |->
                         IF (g < 128) # darkMode THEN 255 ELSE 0]

\* C14 witness: gray 128 without dark mode is all paper.
C14_Witness ==
    /\ Packed /\ ~darkMode /\ img = Uniform(Opaque(128))
    /\ \A k \in DOMAIN frame : frame[k] = 0
    /\ Len(frame) > 0

Channels16 == {0, 1, 255, 256, 257, 32639, 32896, 65534, 65535}

\* The claim about one triple of 16-bit channels.
LumaExact(r, g, b) ==
    LET sum == r * 299 + g * 587 + b * 114
    IN  /\ sum \div 65536 < 65536
        /\ (sum \div 1000) \div 256 \in 0 .. 255
        /\ Gray8(r, g, b) = (sum \div 1000) \div 256

\* C16: the gray level of a pixel is ((r*299 + g*587 + b*114) div 1000)
\* shifted right by 8; the sum stays within 32 bits, the result within
\* 0..255, and for r = g = b = 257*v it is v.
C16_LumaTo8Bits ==
    /\ \A r \in Channels16, g \in Channels16, b \in Channels16 :
          LumaExact(r, g, b)
    /\ \A xy \in DOMAIN img.px :
          LET c == RGBA(img.px[xy])
          IN  /\ LumaExact(c.r, c.g, c.b)
              /\ \A v \in Grays :
                    img.px[xy] = Opaque(v) =>
                       /\ c.r = 257 * v /\ c.g = 257 * v /\ c.b = 257 * v
                       /\ Gray8(c.r, c.g, c.b) = v

\* C16 witness: an opaque white image, whose sum is the largest possible,
\* has been converted.
C16_Witness ==
    /\ Packed /\ img = Uniform(Opaque(255))
    /\ RGBA(img.px[<<0, 0>>]).r = 65535

\* C20: the frame of dark mode is the bitwise complement of the frame the
\* same image gives without it, and every pixel is ink in exactly one.
C20_DarkModeComplement ==
    Packed =>
       LET other == ConvertFrame(img, ~darkMode)
           otherMono == Monochrome(Resize(img), ~darkMode)
       IN  /\ frame = [k \in DOMAIN other |-> 255 - other[k]]
           /\ \A xy \in Coords :
                 /\ Mono[xy] \in {0, 255}
                 /\ Ink(xy) <=> otherMono[xy] # 0

\* C20 witness: the checkerboard in dark mode packs to 0x55.. and 0xAA...
C20_Witness ==
    /\ Packed /\ darkMode /\ img = Checker
    /\ frame[1] = 85 /\ frame[WidthBytes + 1] = 170

====
